---- MODULE Spec2Model ----
(***************************************************************************)
(* LAP-SGD (src/train/LAPSGD.py): per distributed rank, run() spawns       *)
(* num_processes local workers (test_train / train_epoch) that share the   *)
(* counters epoch_counter, minibatch_counter and last_tested_at, and then  *)
(* itself runs the averaging coordinator (average), which talks to the     *)
(* peer ranks through collectives (barrier, all_reduce MAX,                *)
(* communicate_to_all).                                                    *)
(***************************************************************************)
EXTENDS Integers, Sequences, FiniteSets, Bags, TLC

VARIABLES args, epoch_counter, minibatch_counter, last_tested_at,
          process_barrier, results, proc, coord, updates, claimed,
          optimizer, grads, probe, locks

vars == <<args, epoch_counter, minibatch_counter, last_tested_at,
          process_barrier, results, proc, coord, updates, claimed,
          optimizer, grads, probe, locks>>

(* ---------------------------------------------------------------- bounds *)
MaxRanks == 2
MaxProcs == 2
MaxEpochs == 4
MaxLoaderLen == 2
\* most work of a run: the square of its number of workers times the
\* steps to its target
MaxWork == 16
MaxLiveWork == 24
\* optimizer steps taken on one opt object
MaxSteps == 2
\* largest global progress the frequency policy is asked about
MaxProgress == 250

(* ------------------------------------------------------------- topology *)
Ranks == 0 .. (args.commsize - 1)
Procs == 0 .. (args.num_processes - 1)

Max(S) == CHOOSE x \in S : \A y \in S : y <= x

Pow2(n) == 2 ^ n

RECURSIVE Exponent(_, _)
Exponent(n, e) == IF n < Pow2(e + 1) THEN e ELSE Exponent(n, e + 1)

Abs(n) == IF n < 0 THEN -n ELSE n

\* torch.tensor([...]).float(): an integer becomes the nearest float32
\* (24-bit significand, ties to even).
float(n) ==
    IF Abs(n) <= Pow2(24) THEN n
    ELSE LET e == Exponent(Abs(n), 24)
             q == Pow2(e - 23)
             lo == (Abs(n) \div q) * q
             rem == Abs(n) - lo
             up == IF 2 * rem > q THEN 1
                   ELSE IF 2 * rem < q THEN 0
                   ELSE (lo \div q) % 2
             m == lo + up * q
         IN IF n < 0 THEN -m ELSE m

\* a * 1.0 / b < c for integers a, c and b > 0 (true division, then compare)
DivLess(a, b, c) == a < c * b

Target(a) == a.epochs * a.trainloaderlength

(* ----------------------------------------------------------------- init *)
Configs(cs, ns, es, ls) ==
    { [commsize |-> c, num_processes |-> n, epochs |-> e,
       trainloaderlength |-> l, test_freq |-> 1, pre_post_epochs |-> 2,
       averaging_freq |-> 2] :
          c \in cs, n \in ns, e \in es, l \in ls }

\* epoch is the fraction <<numerator, denominator>> of line 171 (0 at line 107)
NewProc == [pc |-> "new", epoch |-> <<0, 1>>, minibatches |-> -1,
            batch_idx |-> -1, do_test |-> FALSE]

NewCoord == [pc |-> "run", minibatches |-> 0, last_averaged_at |-> 0,
             maxepoch |-> <<0, 0>>, joined |-> 0]

\* an opt object that is not stepped, a frequency policy that is not asked
NoOpt == [parameters |-> <<>>, state |-> <<>>, lr |-> <<0, 1>>,
          momentum |-> <<0, 1>>, weight_decay |-> <<0, 1>>, nesterov |-> FALSE]

NoGrads == [p0 |-> <<>>, hist |-> <<>>]

NoProbe == [maxminibatches |-> 0, avg_freq |-> 0]

\* the locks of the shared counters: Free, or the worker that holds it
Free == -1

NoLocks == [minibatch_counter |-> Free, last_tested_at |-> Free]

InitRun(C) ==
    /\ args \in C
    /\ epoch_counter = [r \in Ranks |-> 0]
    /\ minibatch_counter = [r \in Ranks |-> 0]
    /\ last_tested_at = [r \in Ranks |-> 0]
    /\ process_barrier = [r \in Ranks |-> 0]
    /\ results = [r \in Ranks |-> EmptyBag]
    /\ proc = [r \in Ranks |-> [w \in Procs |-> NewProc]]
    /\ coord = [r \in Ranks |-> NewCoord]
    /\ updates = [r \in Ranks |-> 0]
    /\ claimed = [r \in Ranks |-> <<>>]
    /\ locks = [r \in Ranks |-> NoLocks]

InitWith(C) ==
    /\ InitRun(C)
    /\ optimizer = NoOpt
    /\ grads = NoGrads
    /\ probe = NoProbe

\* several workers on one rank, or several ranks of one worker each
Shape(c) ==
    /\ c.commsize = 1 \/ c.num_processes = 1
    /\ (c.commsize * c.num_processes) * (c.commsize * c.num_processes)
         * c.epochs * c.trainloaderlength <= MaxWork

ValidConfigs ==
    { c \in Configs(1 .. MaxRanks, 1 .. MaxProcs, 1 .. MaxEpochs, 1 .. MaxLoaderLen) :
        Shape(c) }

Init == InitWith(ValidConfigs)

(* -------------------------------------------------------------- helpers *)
SetProc(r, w, rec) == proc' = [proc EXCEPT ![r][w] = rec]
SetCoord(r, rec) == coord' = [coord EXCEPT ![r] = rec]

(* ------------------------------------------------------------ run (1/2) *)
\* run, lines 193-226: process group, model, shared counters, barrier
run_setup(r) ==
    /\ coord[r].pc = "run"
    /\ results' = [results EXCEPT ![r] = @ (+) SetToBag({<<"LR", -1>>})]
    /\ SetCoord(r, [coord[r] EXCEPT !.pc = "start"])
    /\ UNCHANGED <<locks, optimizer, grads, probe, args, epoch_counter, minibatch_counter, last_tested_at,
                   process_barrier, proc, updates, claimed>>

\* run, lines 235-237: p.start() for each process in order, then average()
run_start(r) ==
    /\ coord[r].pc = "start"
    /\ \E w \in Procs :
         /\ proc[r][w].pc = "new"
         /\ \A v \in Procs : v < w => proc[r][v].pc # "new"
         /\ SetProc(r, w, [proc[r][w] EXCEPT !.pc = "setup"])
         /\ SetCoord(r, [coord[r] EXCEPT !.pc =
                IF w = args.num_processes - 1 THEN "wait_minibatch" ELSE "start"])
    /\ UNCHANGED <<locks, optimizer, grads, probe, args, epoch_counter, minibatch_counter, last_tested_at,
                   process_barrier, results, updates, claimed>>

(* ----------------------------------------------------------- test_train *)
\* test_train, lines 90-110: local setup, then process_barrier.wait() arrival
test_train_setup(r, w) ==
    /\ proc[r][w].pc = "setup"
    /\ process_barrier' = [process_barrier EXCEPT ![r] = @ + 1]
    /\ SetProc(r, w, [proc[r][w] EXCEPT !.pc = "barrier"])
    /\ UNCHANGED <<locks, optimizer, grads, probe, args, epoch_counter, minibatch_counter, last_tested_at,
                   results, coord, updates, claimed>>

\* a barrier that opens at the first arrival
BarrierOpenFirst(r) == process_barrier[r] >= 1

\* mp.Barrier(args.num_processes): wait() returns once all parties arrived
BarrierOpen(r) == process_barrier[r] >= args.num_processes

barrier_wait(r, w) ==
    /\ proc[r][w].pc = "barrier"
    /\ BarrierOpen(r)
    /\ SetProc(r, w, [proc[r][w] EXCEPT !.pc = "loop"])
    /\ UNCHANGED <<locks, optimizer, grads, probe, args, epoch_counter, minibatch_counter, last_tested_at,
                   process_barrier, results, coord, updates, claimed>>

\* the claim returns the cursor after its own increment
FetchEpochAfter(r) == epoch_counter[r] + 1

\* the value handed out by the locked read of epoch_counter, line 113
FetchEpoch(r) == epoch_counter[r]

\* test_train, lines 119-121: the worker's two result bundles
Drain(r, w) ==
    /\ SetProc(r, w, [proc[r][w] EXCEPT !.pc = "done"])
    /\ results' = [results EXCEPT ![r] =
            @ (+) SetToBag({<<"testresult", w>>, <<"trainresult", w>>})]

\* test_train, lines 111-121: loop test; either the claim of a sampling
\* epoch (handed to train_sampler.set_epoch, line 131) and the call of
\* train_epoch, or the result bundles and the end of the process
test_train_loop(r, w) ==
    /\ proc[r][w].pc = "loop"
    /\ IF DivLess(proc[r][w].epoch[1], proc[r][w].epoch[2], args.epochs)
       THEN /\ SetProc(r, w, [proc[r][w] EXCEPT !.pc = "batch", !.batch_idx = -1])
            /\ claimed' = [claimed EXCEPT ![r] = Append(@, FetchEpoch(r))]
            /\ epoch_counter' = [epoch_counter EXCEPT ![r] = @ + 1]
            /\ UNCHANGED results
       ELSE /\ Drain(r, w)
            /\ UNCHANGED <<epoch_counter, claimed>>
    /\ UNCHANGED <<locks, optimizer, grads, probe, args, minibatch_counter, last_tested_at,
                   process_barrier, coord, updates>>

(* ---------------------------------------------------------- train_epoch *)
\* train_epoch, lines 189-190: LR record and return of epoch; epoch and lr
\* are unbound (UnboundLocalError) when the loader yielded no batch
Return(r, w) ==
    IF proc[r][w].batch_idx = -1
    THEN /\ SetProc(r, w, [proc[r][w] EXCEPT !.pc = "crashed"])
         /\ UNCHANGED results
    ELSE /\ SetProc(r, w, [proc[r][w] EXCEPT !.pc = "loop"])
         /\ results' = [results EXCEPT ![r] = @ (+) SetToBag({<<"LR", -1>>})]

\* train_epoch, lines 134-161: next batch of the loader, forward/backward
\* over the micro-batches on the shared net, gradient accumulation; when
\* the loader is exhausted, lines 189-190
train_epoch_batch(r, w) ==
    /\ proc[r][w].pc = "batch"
    /\ IF proc[r][w].batch_idx + 1 < args.trainloaderlength
       THEN /\ SetProc(r, w, [proc[r][w] EXCEPT !.pc = "count", !.batch_idx = @ + 1])
            /\ UNCHANGED results
       ELSE Return(r, w)
    /\ UNCHANGED <<locks, optimizer, grads, probe, args, epoch_counter, minibatch_counter, last_tested_at,
                   process_barrier, coord, updates, claimed>>

\* the worker counts on from its own last reading instead of reading the
\* shared counter under the lock
ReadCounterStale(r, w) ==
    IF proc[r][w].minibatches = -1 THEN minibatch_counter[r]
    ELSE proc[r][w].minibatches + 1

\* the worker takes the number of optimizer updates applied so far
ReadCounterApplied(r, w) == updates[r]

\* the value read under the lock at line 163
ReadCounter(r, w) == minibatch_counter[r]

\* the checkpoint moves only when the window is exceeded
NextLastTestedStrict(mb, lt, a) ==
    IF mb - lt > a.test_freq * a.trainloaderlength THEN mb ELSE lt

\* lines 165-169: the evaluation checkpoint after a step that read mb
NextLastTested(mb, lt, a) ==
    IF mb - lt >= a.test_freq * a.trainloaderlength THEN mb ELSE lt

\* train_epoch, lines 162-170: one critical section under the
\* minibatch_counter lock (and, nested, the last_tested_at lock)
train_epoch_count(r, w) ==
    /\ proc[r][w].pc = "count"
    /\ LET minibatches == ReadCounter(r, w)
           lt == NextLastTested(minibatches, last_tested_at[r], args)
       IN /\ SetProc(r, w, [proc[r][w] EXCEPT
                  !.pc = "step",
                  !.minibatches = minibatches,
                  !.do_test = (minibatches - last_tested_at[r]
                                 >= args.test_freq * args.trainloaderlength)])
          /\ last_tested_at' = [last_tested_at EXCEPT ![r] = lt]
          /\ minibatch_counter' = [minibatch_counter EXCEPT ![r] = minibatches + 1]
    /\ UNCHANGED <<locks, optimizer, grads, probe, args, epoch_counter, process_barrier, results, coord,
                   updates, claimed>>

\* the batch loop is left only beyond the target
AfterStepStrict(minibatches, a) ==
    IF minibatches > a.epochs * a.trainloaderlength THEN "return" ELSE "batch"

\* train_epoch, lines 186-187: where the batch loop goes after a step
AfterStep(minibatches, a) ==
    IF minibatches >= a.epochs * a.trainloaderlength THEN "return" ELSE "batch"

\* train_epoch, lines 171-182: epoch fraction, scheduler.step,
\* optimizer.step on the shared net, train_results record; without a test
\* also lines 186-187
train_epoch_step(r, w) ==
    /\ proc[r][w].pc = "step"
    /\ SetProc(r, w, [proc[r][w] EXCEPT
            !.pc = IF proc[r][w].do_test THEN "test"
                   ELSE AfterStep(proc[r][w].minibatches, args),
            !.epoch = <<proc[r][w].minibatches, args.trainloaderlength>>])
    /\ updates' = [updates EXCEPT ![r] = @ + 1]
    /\ UNCHANGED <<locks, optimizer, grads, probe, args, epoch_counter, minibatch_counter, last_tested_at,
                   process_barrier, results, coord, claimed>>

\* train_epoch, lines 183-187: test_epoch on the shared net, then the
\* test for the step target
train_epoch_test(r, w) ==
    /\ proc[r][w].pc = "test"
    /\ SetProc(r, w, [proc[r][w] EXCEPT
            !.pc = AfterStep(proc[r][w].minibatches, args)])
    /\ UNCHANGED <<locks, optimizer, grads, probe, args, epoch_counter, minibatch_counter, last_tested_at,
                   process_barrier, results, coord, updates, claimed>>

\* train_epoch, lines 189-190 after the break of line 187
train_epoch_return(r, w) ==
    /\ proc[r][w].pc = "return"
    /\ Return(r, w)
    /\ UNCHANGED <<locks, optimizer, grads, probe, args, epoch_counter, minibatch_counter, last_tested_at,
                   process_barrier, coord, updates, claimed>>

\* a worker process dies while training (device error, divergence)
worker_crash(r, w) ==
    /\ proc[r][w].pc \in {"batch", "step", "test"}
    /\ SetProc(r, w, [proc[r][w] EXCEPT !.pc = "crashed"])
    /\ UNCHANGED <<locks, optimizer, grads, probe, args, epoch_counter, minibatch_counter, last_tested_at,
                   process_barrier, results, coord, updates, claimed>>

(* -------------------------------------------------------------- average *)
\* a gate that lets the coordinator through at zero
StartGateZero(minibatches) == minibatches >= 0

\* average, lines 29-33: spin until the counter is positive
StartGate(minibatches) == minibatches > 0

average_wait(r) ==
    /\ coord[r].pc = "wait_minibatch"
    /\ SetCoord(r, [coord[r] EXCEPT
            !.minibatches = minibatch_counter[r],
            !.pc = IF StartGate(minibatch_counter[r]) THEN "barrier"
                   ELSE "wait_minibatch"])
    /\ UNCHANGED <<locks, optimizer, grads, probe, args, epoch_counter, minibatch_counter, last_tested_at,
                   process_barrier, results, proc, updates, claimed>>

\* average, line 34: dist.barrier() returns on every rank once all ranks
\* have entered it
dist_barrier ==
    /\ \A r \in Ranks : coord[r].pc = "barrier"
    /\ coord' = [r \in Ranks |-> [coord[r] EXCEPT !.pc = "read"]]
    /\ UNCHANGED <<locks, optimizer, grads, probe, args, epoch_counter, minibatch_counter, last_tested_at,
                   process_barrier, results, proc, updates, claimed>>

\* average, lines 36-40 (call side): locked read, the tensor
\* [minibatches, -last_averaged_at].float(), entry into all_reduce
average_read(r) ==
    /\ coord[r].pc = "read"
    /\ SetCoord(r, [coord[r] EXCEPT
            !.pc = "all_reduce",
            !.minibatches = minibatch_counter[r],
            !.maxepoch = <<float(minibatch_counter[r]),
                           float(-coord[r].last_averaged_at)>>])
    /\ UNCHANGED <<locks, optimizer, grads, probe, args, epoch_counter, minibatch_counter, last_tested_at,
                   process_barrier, results, proc, updates, claimed>>

\* the tensor is left as the rank contributed it
ReduceLocal(t, r) == t[r]

\* only the first entry is reduced, the second stays the rank's own
ReduceFirstOnly(t, r) == <<Max({t[q][1] : q \in DOMAIN t}), t[r][2]>>

\* dist.all_reduce(maxepoch, op=MAX): what rank r holds after the call
ReduceMax(t, r) ==
    <<Max({t[q][1] : q \in DOMAIN t}), Max({t[q][2] : q \in DOMAIN t})>>

\* average, line 40: the collective completes once every rank is in it
all_reduce ==
    /\ \A r \in Ranks : coord[r].pc = "all_reduce"
    /\ LET t == [q \in Ranks |-> coord[q].maxepoch]
       IN coord' = [r \in Ranks |->
              [coord[r] EXCEPT !.pc = "check", !.maxepoch = ReduceMax(t, r)]]
    /\ UNCHANGED <<locks, optimizer, grads, probe, args, epoch_counter, minibatch_counter, last_tested_at,
                   process_barrier, results, proc, updates, claimed>>

\* the exit test with a strict comparison
FinishedStrict(maxminibatches, a) == maxminibatches > a.trainloaderlength * a.epochs

\* the exit test asks for more steps than the workers take
FinishedBeyond(maxminibatches, a) ==
    maxminibatches > a.trainloaderlength * a.epochs + a.num_processes

\* average, line 42
Finished(maxminibatches, a) == maxminibatches >= a.trainloaderlength * a.epochs

\* the warm-up interval is kept up to and including the boundary
AvgFreqInclusive(maxminibatches, a) ==
    IF maxminibatches <= a.pre_post_epochs * a.trainloaderlength
    THEN 1 ELSE a.averaging_freq

\* average, lines 46-47
AvgFreq(maxminibatches, a) ==
    IF DivLess(maxminibatches, a.trainloaderlength, a.pre_post_epochs)
    THEN 1 ELSE a.averaging_freq

\* average, line 49
Trigger(maxepoch, a) == maxepoch[1] + maxepoch[2] >= AvgFreq(maxepoch[1], a)

\* average, lines 41-49: exit, average, or go round again
average_check(r) ==
    /\ coord[r].pc = "check"
    /\ SetCoord(r, [coord[r] EXCEPT !.pc =
            IF Finished(coord[r].maxepoch[1], args) THEN "join"
            ELSE IF Trigger(coord[r].maxepoch, args) THEN "communicate"
            ELSE "read"])
    /\ UNCHANGED <<locks, optimizer, grads, probe, args, epoch_counter, minibatch_counter, last_tested_at,
                   process_barrier, results, proc, updates, claimed>>

\* the reduced maximum is recorded instead of the rank's own count
LastAveragedMax(c) == c.maxepoch[1]

\* average, line 52
LastAveraged(c) == c.minibatches

\* average, line 51: communicate_to_all is an all-reduce (mean) of every
\* parameter tensor over the ranks, applied in place to the shared net;
\* once every rank is in it the tensors of each rank are being overwritten
communicate_to_all ==
    /\ \A r \in Ranks : coord[r].pc = "communicate"
    /\ coord' = [r \in Ranks |-> [coord[r] EXCEPT !.pc = "overwrite"]]
    /\ UNCHANGED <<locks, optimizer, grads, probe, args, epoch_counter, minibatch_counter, last_tested_at,
                   process_barrier, results, proc, updates, claimed>>

\* average, lines 51-52: the last tensor is written, communicate_to_all
\* returns, last_averaged_at = minibatches
average_set(r) ==
    /\ coord[r].pc = "overwrite"
    /\ SetCoord(r, [coord[r] EXCEPT !.pc = "read",
                                    !.last_averaged_at = LastAveraged(coord[r])])
    /\ UNCHANGED <<locks, optimizer, grads, probe, args, epoch_counter, minibatch_counter, last_tested_at,
                   process_barrier, results, proc, updates, claimed>>

(* ------------------------------------------------------------ run (2/2) *)
\* run, lines 238-239: p.join() in spawn order; join returns for a process
\* that ended, normally or not
run_join(r) ==
    /\ coord[r].pc = "join"
    /\ coord[r].joined < args.num_processes
    /\ proc[r][coord[r].joined].pc \in {"done", "crashed"}
    /\ SetCoord(r, [coord[r] EXCEPT !.joined = @ + 1])
    /\ UNCHANGED <<locks, optimizer, grads, probe, args, epoch_counter, minibatch_counter, last_tested_at,
                   process_barrier, results, proc, updates, claimed>>

\* run, lines 240-245: result processing, "Run Complete!"
run_report(r) ==
    /\ coord[r].pc = "join"
    /\ coord[r].joined = args.num_processes
    /\ SetCoord(r, [coord[r] EXCEPT !.pc = "complete"])
    /\ UNCHANGED <<locks, optimizer, grads, probe, args, epoch_counter, minibatch_counter, last_tested_at,
                   process_barrier, results, proc, updates, claimed>>

(* ----------------------------------------------------------------- next *)
Next ==
    \/ \E r \in Ranks : run_setup(r)
    \/ \E r \in Ranks : run_start(r)
    \/ \E r \in Ranks : \E w \in Procs : test_train_setup(r, w)
    \/ \E r \in Ranks : \E w \in Procs : barrier_wait(r, w)
    \/ \E r \in Ranks : \E w \in Procs : test_train_loop(r, w)
    \/ \E r \in Ranks : \E w \in Procs : train_epoch_batch(r, w)
    \/ \E r \in Ranks : \E w \in Procs : train_epoch_count(r, w)
    \/ \E r \in Ranks : \E w \in Procs : train_epoch_step(r, w)
    \/ \E r \in Ranks : \E w \in Procs : train_epoch_test(r, w)
    \/ \E r \in Ranks : \E w \in Procs : train_epoch_return(r, w)
    \/ \E r \in Ranks : average_wait(r)
    \/ dist_barrier
    \/ \E r \in Ranks : average_read(r)
    \/ all_reduce
    \/ \E r \in Ranks : average_check(r)
    \/ communicate_to_all
    \/ \E r \in Ranks : average_set(r)
    \/ \E r \in Ranks : run_join(r)
    \/ \E r \in Ranks : run_report(r)

Spec == Init /\ [][Next]_vars

(* ------------------------------------------------- run with a failure *)
NextFail ==
    \/ Next
    \/ \E r \in Ranks : \E w \in Procs : worker_crash(r, w)

SpecFail == Init /\ [][NextFail]_vars

(* ------------------------------------- the locks of the shared counters *)
\* the critical section of train_epoch, lines 162-170, one lock operation
\* at a time; the coordinator's locked reads wait for the lock
Acquire(l, name, w) == [l EXCEPT ![name] = w]

\* the with block is left without giving the lock back
ReleaseNone(l, name) == l

\* the end of a with block
Release(l, name) == [l EXCEPT ![name] = Free]

\* train_epoch, lines 162-163
lock_minibatch(r, w) ==
    /\ proc[r][w].pc = "count"
    /\ locks[r].minibatch_counter = Free
    /\ locks' = [locks EXCEPT ![r] = Acquire(@, "minibatch_counter", w)]
    /\ SetProc(r, w, [proc[r][w] EXCEPT !.pc = "minibatch_locked",
                                        !.minibatches = ReadCounter(r, w)])
    /\ UNCHANGED <<optimizer, grads, probe, args, epoch_counter, minibatch_counter,
                   last_tested_at, process_barrier, results, coord, updates, claimed>>

\* train_epoch, line 164
lock_tested(r, w) ==
    /\ proc[r][w].pc = "minibatch_locked"
    /\ locks[r].last_tested_at = Free
    /\ locks' = [locks EXCEPT ![r] = Acquire(@, "last_tested_at", w)]
    /\ SetProc(r, w, [proc[r][w] EXCEPT !.pc = "tested_locked"])
    /\ UNCHANGED <<optimizer, grads, probe, args, epoch_counter, minibatch_counter,
                   last_tested_at, process_barrier, results, coord, updates, claimed>>

\* train_epoch, lines 165-169 and the end of the inner with block
tested_section(r, w) ==
    /\ proc[r][w].pc = "tested_locked"
    /\ SetProc(r, w, [proc[r][w] EXCEPT
            !.pc = "increment",
            !.do_test = (proc[r][w].minibatches - last_tested_at[r]
                           >= args.test_freq * args.trainloaderlength)])
    /\ last_tested_at' = [last_tested_at EXCEPT ![r] =
            NextLastTested(proc[r][w].minibatches, @, args)]
    /\ locks' = [locks EXCEPT ![r] = Release(@, "last_tested_at")]
    /\ UNCHANGED <<optimizer, grads, probe, args, epoch_counter, minibatch_counter,
                   process_barrier, results, coord, updates, claimed>>

\* train_epoch, line 170 and the end of the outer with block
increment(r, w) ==
    /\ proc[r][w].pc = "increment"
    /\ SetProc(r, w, [proc[r][w] EXCEPT !.pc = "step"])
    /\ minibatch_counter' = [minibatch_counter EXCEPT ![r] = @ + 1]
    /\ locks' = [locks EXCEPT ![r] = Release(@, "minibatch_counter")]
    /\ UNCHANGED <<optimizer, grads, probe, args, epoch_counter, last_tested_at,
                   process_barrier, results, coord, updates, claimed>>

\* average, lines 30-31: the with block holds one read
lock_average_wait(r) ==
    /\ locks[r].minibatch_counter = Free
    /\ average_wait(r)

\* average, lines 36-37: the with block holds one read
lock_average_read(r) ==
    /\ locks[r].minibatch_counter = Free
    /\ average_read(r)

LockConfigs == { c \in ValidConfigs : c.commsize = 1 }

InitLock == InitWith(LockConfigs)

NextLock ==
    \/ \E r \in Ranks : run_setup(r)
    \/ \E r \in Ranks : run_start(r)
    \/ \E r \in Ranks : \E w \in Procs : test_train_setup(r, w)
    \/ \E r \in Ranks : \E w \in Procs : barrier_wait(r, w)
    \/ \E r \in Ranks : \E w \in Procs : test_train_loop(r, w)
    \/ \E r \in Ranks : \E w \in Procs : train_epoch_batch(r, w)
    \/ \E r \in Ranks : \E w \in Procs : lock_minibatch(r, w)
    \/ \E r \in Ranks : \E w \in Procs : lock_tested(r, w)
    \/ \E r \in Ranks : \E w \in Procs : tested_section(r, w)
    \/ \E r \in Ranks : \E w \in Procs : increment(r, w)
    \/ \E r \in Ranks : \E w \in Procs : train_epoch_step(r, w)
    \/ \E r \in Ranks : \E w \in Procs : train_epoch_test(r, w)
    \/ \E r \in Ranks : \E w \in Procs : train_epoch_return(r, w)
    \/ \E r \in Ranks : lock_average_wait(r)
    \/ dist_barrier
    \/ \E r \in Ranks : lock_average_read(r)
    \/ all_reduce
    \/ \E r \in Ranks : average_check(r)
    \/ communicate_to_all
    \/ \E r \in Ranks : average_set(r)
    \/ \E r \in Ranks : run_join(r)
    \/ \E r \in Ranks : run_report(r)

SpecLock == InitLock /\ [][NextLock]_vars

(* ------------------------------------------------ run, fairly scheduled *)
\* the steps of worker process w of rank r
WorkerStep(r, w) ==
    \/ test_train_setup(r, w)
    \/ barrier_wait(r, w)
    \/ test_train_loop(r, w)
    \/ train_epoch_batch(r, w)
    \/ train_epoch_count(r, w)
    \/ train_epoch_step(r, w)
    \/ train_epoch_test(r, w)
    \/ train_epoch_return(r, w)

\* the steps of the main process of rank r outside collectives
MainStep(r) ==
    \/ run_setup(r)
    \/ run_start(r)
    \/ average_wait(r)
    \/ average_read(r)
    \/ average_check(r)
    \/ average_set(r)
    \/ run_join(r)
    \/ run_report(r)

\* a collective that every rank has entered
Collective == dist_barrier \/ all_reduce \/ communicate_to_all

\* every process that can take a step is scheduled, and a collective that
\* every rank has entered completes
Fairness ==
    /\ \A r \in 0 .. (MaxRanks - 1) :
         /\ WF_vars(r \in Ranks /\ MainStep(r))
         /\ \A w \in 0 .. (MaxProcs - 1) :
              WF_vars(r \in Ranks /\ w \in Procs /\ WorkerStep(r, w))
    /\ WF_vars(Collective)

LiveShape(c) ==
    LET n == c.commsize * c.num_processes
    IN n * n * n * c.epochs * c.trainloaderlength <= MaxLiveWork

LiveConfigs == { c \in ValidConfigs : LiveShape(c) }

InitLive == InitWith(LiveConfigs)

SpecLive == InitLive /\ [][Next]_vars /\ Fairness

(* ------------------------------------- run on any schedule parameters *)
AnyConfigs == Configs({1}, 1 .. MaxProcs, -1 .. 2, 0 .. 1)

InitAny == InitWith(AnyConfigs)

SpecAny == InitAny /\ [][Next]_vars

(* ------------------------------------------------- the frequency policy *)
FreqExample == [commsize |-> 1, num_processes |-> 1, epochs |-> 3,
                trainloaderlength |-> 100, test_freq |-> 1,
                pre_post_epochs |-> 1, averaging_freq |-> 5]

FreqConfigs ==
    {FreqExample} \cup
    { [FreqExample EXCEPT !.trainloaderlength = l, !.pre_post_epochs = w,
                          !.averaging_freq = f] :
        l \in {1, 7}, w \in 0 .. 2, f \in {1, 3} }

InitFreq ==
    /\ InitRun(FreqConfigs)
    /\ optimizer = NoOpt
    /\ grads = NoGrads
    /\ \E m \in 0 .. MaxProgress : probe = [maxminibatches |-> m, avg_freq |-> 0]

\* average, lines 46-47, for a reduced maximum taken from 0 .. MaxProgress
average_freq ==
    /\ probe.avg_freq = 0
    /\ probe' = [probe EXCEPT !.avg_freq = AvgFreq(probe.maxminibatches, args)]
    /\ UNCHANGED <<locks, optimizer, grads, args, epoch_counter, minibatch_counter,
                   last_tested_at, process_barrier, results, proc, coord,
                   updates, claimed>>

NextFreq == average_freq

SpecFreq == InitFreq /\ [][NextFreq]_vars

(* ------------------------------------------------------------------ opt *)
\* exact values: fractions <<numerator, denominator>> in lowest terms
RECURSIVE GCD(_, _)
GCD(a, b) == IF b = 0 THEN a ELSE GCD(b, a % b)

Norm(x) ==
    LET g == GCD(Abs(x[1]), x[2])
    IN IF x[1] = 0 THEN <<0, 1>> ELSE <<x[1] \div g, x[2] \div g>>

RAdd(x, y) ==
    LET l == (x[2] \div GCD(x[2], y[2])) * y[2]
    IN Norm(<<x[1] * (l \div x[2]) + y[1] * (l \div y[2]), l>>)

RMul(x, y) ==
    LET a == Norm(<<x[1], y[2]>>)
        b == Norm(<<y[1], x[2]>>)
    IN Norm(<<a[1] * b[1], a[2] * b[2]>>)

RNeg(x) == <<-x[1], x[2]>>

Zero == <<0, 1>>

\* a missing gradient, a momentum buffer not yet in self.state
None == <<>>

\* the new buffer multiplies the sum: buf.add_(d_p).mul_(momentum)
BufferScaledSum(buf, d_p, o) == RMul(o.momentum, RAdd(buf, d_p))

\* opt.step, line 78: buf.mul_(self.momentum).add_(d_p)
Buffer(buf, d_p, o) == RAdd(RMul(buf, o.momentum), d_p)

\* a missing gradient is taken for a gradient of zero
StepParamZeroGrad(p, st, g, o) ==
    LET g0 == IF g = None THEN Zero ELSE g
        d_p == IF o.weight_decay # Zero
               THEN RAdd(g0, RMul(p, o.weight_decay)) ELSE g0
    IN IF o.momentum # Zero
       THEN LET buf == IF st = None THEN d_p ELSE Buffer(st, d_p, o)
                dir == IF o.nesterov THEN RAdd(d_p, RMul(buf, o.momentum))
                       ELSE buf
            IN [p |-> RAdd(p, RMul(dir, RNeg(o.lr))), buf |-> buf]
       ELSE [p |-> RAdd(p, RMul(d_p, RNeg(o.lr))), buf |-> st]

\* opt.step, lines 66-84 for one parameter p with buffer st and gradient g
StepParam(p, st, g, o) ==
    IF g = None THEN [p |-> p, buf |-> st]
    ELSE LET d_p == IF o.weight_decay # Zero
                    THEN RAdd(g, RMul(p, o.weight_decay)) ELSE g
         IN IF o.momentum # Zero
            THEN LET buf == IF st = None THEN d_p ELSE Buffer(st, d_p, o)
                     dir == IF o.nesterov THEN RAdd(d_p, RMul(buf, o.momentum))
                            ELSE buf
                 IN [p |-> RAdd(p, RMul(dir, RNeg(o.lr))), buf |-> buf]
            ELSE [p |-> RAdd(p, RMul(d_p, RNeg(o.lr))), buf |-> st]

\* opt.step, lines 64-84: the parameters in order, each with its gradient
Step(o, grad) ==
    LET n == IF Len(o.parameters) < Len(grad) THEN Len(o.parameters) ELSE Len(grad)
        new == [i \in 1 .. n |->
                  StepParam(o.parameters[i], o.state[i], grad[i], o)]
    IN [o EXCEPT
          !.parameters = [i \in 1 .. Len(o.parameters) |->
                            IF i <= n THEN new[i].p ELSE o.parameters[i]],
          !.state = [i \in 1 .. Len(o.state) |->
                            IF i <= n THEN new[i].buf ELSE o.state[i]]]

\* lr 0.1 with momentum 0 or 0.9, and lr 1/2 with momentum and weight
\* decay 0 or 1/2, with and without Nesterov
HyperParams ==
    { [lr |-> <<1, 10>>, momentum |-> m, weight_decay |-> Zero, nesterov |-> FALSE] :
        m \in {Zero, <<9, 10>>} }
    \cup
    { [lr |-> <<1, 2>>, momentum |-> m, weight_decay |-> wd, nesterov |-> n] :
        m \in {Zero, <<1, 2>>}, wd \in {Zero, <<1, 2>>}, n \in BOOLEAN }

\* the first parameter's start value; the others follow it by 1 each
ParamValues == {<<10, 1>>, <<-3, 1>>}

GradValues == {<<2, 1>>, <<-1, 1>>}

NumParams == 2

\* opt.__init__, lines 56-62
InitOpt ==
    /\ InitRun({FreqExample})
    /\ probe = NoProbe
    /\ \E h \in HyperParams, v \in ParamValues :
        LET p0 == [i \in 1 .. NumParams |-> <<v[1] + i - 1, 1>>]
        IN /\ optimizer = [parameters |-> p0,
                           state |-> [i \in 1 .. NumParams |-> None],
                           lr |-> h.lr, momentum |-> h.momentum,
                           weight_decay |-> h.weight_decay, nesterov |-> h.nesterov]
           /\ grads = [p0 |-> p0, hist |-> <<>>]

\* one call of opt.step with a gradient sequence: one gradient value, and
\* no gradient for the parameters of missing
opt_step ==
    /\ Len(grads.hist) < MaxSteps
    /\ \E g \in GradValues, missing \in SUBSET (1 .. NumParams) :
          LET grad == [i \in 1 .. NumParams |-> IF i \in missing THEN None ELSE g]
          IN /\ optimizer' = Step(optimizer, grad)
             /\ grads' = [grads EXCEPT !.hist = Append(@, grad)]
    /\ UNCHANGED <<locks, probe, args, epoch_counter, minibatch_counter,
                   last_tested_at, process_barrier, results, proc, coord,
                   updates, claimed>>

NextOpt == opt_step

SpecOpt == InitOpt /\ [][NextOpt]_vars

(* --------------------------------------------------------------- claims *)
Exited(r) == coord[r].pc \in {"join", "complete"}

Released(r, w) == proc[r][w].pc \notin {"new", "setup", "barrier"}

\* C1: under every interleaving the shared minibatches counter never
\* decreases, last_tested_at never decreases, and last_tested_at <=
\* minibatches in every reachable state.
C1_Monotone ==
    [][\A r \in Ranks :
          /\ minibatch_counter'[r] >= minibatch_counter[r]
          /\ last_tested_at'[r] >= last_tested_at[r]
          /\ last_tested_at[r] <= minibatch_counter[r]
          /\ last_tested_at'[r] <= minibatch_counter'[r]]_vars

C1_Witness ==
    \E r \in Ranks :
        /\ args.num_processes >= 2
        /\ last_tested_at[r] > 0
        /\ minibatch_counter[r] > last_tested_at[r] + 1

\* C2 as stated: no coordinator leaves the averaging loop before the later
\* rank has reached the target, i.e. before every rank's minibatches
\* counter is >= epochs * steps_per_epoch.
C2_ExitAfterLaterRank ==
    \A r \in Ranks :
        Exited(r) => \A q \in Ranks : minibatch_counter[q] >= Target(args)

\* C2 amended: a coordinator leaves the loop only in a reduction round in
\* which some rank's coordinator read a count >= target (the earlier
\* rank), every coordinator leaves in that same round, whether or not the
\* later rank has reached the target.
C2_ExitWithEarlierRank ==
    \A r \in Ranks :
        Exited(r) =>
          /\ \E q \in Ranks : /\ coord[q].minibatches >= Target(args)
                               /\ minibatch_counter[q] >= Target(args)
          /\ \A q \in Ranks :
                \/ Exited(q)
                \/ /\ coord[q].pc = "check"
                   /\ coord[q].maxepoch[1] >= Target(args)

C2_Witness ==
    /\ args.commsize = 2
    /\ \E r \in Ranks, q \in Ranks :
          /\ Exited(r) /\ Exited(q) /\ r # q
          /\ minibatch_counter[q] < Target(args)

\* C3: once a coordinator has read a local count >= target, the reduction
\* of that round gives every rank a maximum >= target, every coordinator
\* that holds such a maximum leaves the loop at its exit test, and no
\* coordinator reads, reduces or averages again after a peer has left.
C3_ExitTogether ==
    /\ [][((\A r \in Ranks : coord[r].pc = "all_reduce")
             /\ (\E q \in Ranks : coord[q].maxepoch[1] >= Target(args))
             /\ coord' # coord)
            => \A r \in Ranks : /\ coord'[r].pc = "check"
                                /\ coord'[r].maxepoch[1] >= Target(args)]_vars
    /\ [][\A r \in Ranks :
            (coord[r].pc = "check" /\ coord[r].maxepoch[1] >= Target(args)
               /\ coord'[r] # coord[r])
            => coord'[r].pc = "join"]_vars
    /\ []((\E r \in Ranks : Exited(r))
           => \A q \in Ranks :
                coord[q].pc \notin {"read", "all_reduce", "communicate",
                                    "overwrite"})

C3_Witness ==
    /\ args.commsize = 2
    /\ \E r \in Ranks, q \in Ranks :
          /\ coord[r].pc = "join"
          /\ coord[r].minibatches < Target(args)
          /\ coord[q].pc = "check"
          /\ coord[q].minibatches >= Target(args)

\* C4: the sampling epochs claimed by the workers of a rank are, in the
\* order of the claims, 0, 1, ..., K-1: pairwise distinct, without a gap,
\* each the value of epoch_cursor before the claim's own increment.
C4_DistinctEpochs ==
    \A r \in Ranks :
        /\ Len(claimed[r]) = epoch_counter[r]
        /\ \A i \in 1 .. Len(claimed[r]) : claimed[r][i] = i - 1

C4_Witness ==
    \E r \in Ranks :
        /\ args.num_processes >= 2
        /\ Len(claimed[r]) > args.num_processes
        /\ \E w \in Procs, v \in Procs :
              w # v /\ proc[r][w].pc = "count" /\ proc[r][v].pc = "count"

\* C5: a coordinator is at or past its first collective call only when the
\* StartupBarrier of its rank has released (all workers arrived, one has
\* left it), its own reading of minibatches is > 0 and a worker has
\* counted a minibatch.
C5_GatedCollectives ==
    \A r \in Ranks :
        coord[r].pc \in {"barrier", "read", "all_reduce", "check",
                         "communicate", "overwrite", "join", "complete"}
        => /\ process_barrier[r] = args.num_processes
           /\ \E w \in Procs : Released(r, w)
           /\ coord[r].minibatches > 0
           /\ minibatch_counter[r] > 0

C5_Witness ==
    \E r \in Ranks :
        /\ coord[r].pc = "communicate"
        /\ \E w \in Procs : proc[r][w].pc = "step"

\* C6: the averaging interval is 1 when global_max_m / steps_per_epoch <
\* warmup_epochs (the whole steps_per_epoch's in global_max_m are fewer
\* than warmup_epochs) and averaging_frequency otherwise; for
\* warmup_epochs = 1, steps_per_epoch = 100, averaging_frequency = 5 it is
\* 1 for progress 0 .. 99 and 5 from 100 on.
C6_FrequencyPolicy ==
    probe.avg_freq # 0 =>
      /\ probe.avg_freq =
            IF (probe.maxminibatches \div args.trainloaderlength) < args.pre_post_epochs
            THEN 1 ELSE args.averaging_freq
      /\ args = FreqExample =>
            /\ probe.maxminibatches \in 0 .. 99 => probe.avg_freq = 1
            /\ probe.maxminibatches >= 100 => probe.avg_freq = 5

C6_Witness ==
    /\ args = FreqExample
    /\ probe.maxminibatches = 100
    /\ probe.avg_freq = 5

\* C7 as stated: after a local worker has terminated abnormally the run
\* never reaches its completed state.
C7_CrashIsFatal ==
    (\E r \in Ranks : \E w \in Procs : proc[r][w].pc = "crashed")
    => \A r \in Ranks : coord[r].pc # "complete"

\* C8 as stated: with epochs <= 0 or steps_per_epoch = 0 no worker process
\* is spawned and the supervisor does not get past its startup.
C8_FailFast ==
    (args.epochs <= 0 \/ args.trainloaderlength = 0)
    => \A r \in Ranks :
         /\ coord[r].pc \in {"run", "start"}
         /\ \A w \in Procs : proc[r][w].pc = "new"

\* C9: no worker claims an epoch index or increments minibatches (or is
\* past the barrier at all) until all num_processes workers of its rank
\* have arrived at the StartupBarrier; once all have arrived every waiting
\* worker can leave it.
C9_StartupBarrier ==
    \A r \in Ranks :
        /\ (epoch_counter[r] > 0 \/ minibatch_counter[r] > 0
              \/ \E w \in Procs : Released(r, w))
           => /\ process_barrier[r] = args.num_processes
              /\ \A w \in Procs : proc[r][w].pc \notin {"new", "setup"}
        /\ process_barrier[r] = args.num_processes
           => \A w \in Procs :
                 proc[r][w].pc = "barrier" => ENABLED barrier_wait(r, w)

C9_Witness ==
    \E r \in Ranks :
        /\ args.num_processes >= 2
        /\ minibatch_counter[r] > 0
        /\ \E w \in Procs : proc[r][w].pc = "barrier"

\* the update rule of the claim, as a function of the gradients one
\* parameter has received so far
RECURSIVE Reference(_, _, _)
Reference(p0, h, o) ==
    IF h = <<>> THEN [p |-> p0, b |-> None]
    ELSE LET prev == Reference(p0, SubSeq(h, 1, Len(h) - 1), o)
             g0 == h[Len(h)]
         IN IF g0 = None THEN prev
            ELSE LET g == RAdd(g0, RMul(o.weight_decay, prev.p))
                     b == IF o.momentum = Zero THEN None
                          ELSE IF prev.b = None THEN g
                          ELSE RAdd(RMul(o.momentum, prev.b), g)
                     direction == IF o.momentum = Zero THEN g
                                  ELSE IF o.nesterov THEN RAdd(g, RMul(o.momentum, b))
                                  ELSE b
                 IN [p |-> RAdd(prev.p, RNeg(RMul(o.lr, direction))), b |-> b]

History(i) == [k \in 1 .. Len(grads.hist) |-> grads.hist[k][i]]

ExampleRun(i, m, n) ==
    /\ optimizer.lr = <<1, 10>> /\ optimizer.momentum = m
    /\ grads.p0[i] = <<10, 1>>
    /\ History(i) = [k \in 1 .. n |-> <<2, 1>>]

\* C10: after any sequence of steps each parameter and its momentum buffer
\* equal the update rule of the claim applied to the gradients it has
\* received; p0 = 10, g = 2, lr = 0.1, momentum = 0.9 gives buffer 2 and
\* p = 9.8 after one step, buffer 3.8 and p = 9.42 after two, and momentum
\* 0 gives p = 9.8 after one step.
C10_OptimizerStep ==
    \A i \in 1 .. Len(optimizer.parameters) :
        /\ optimizer.parameters[i] = Reference(grads.p0[i], History(i), optimizer).p
        /\ optimizer.state[i] = Reference(grads.p0[i], History(i), optimizer).b
        /\ ExampleRun(i, <<9, 10>>, 1)
           => optimizer.parameters[i] = <<49, 5>> /\ optimizer.state[i] = <<2, 1>>
        /\ ExampleRun(i, <<9, 10>>, 2)
           => optimizer.parameters[i] = <<471, 50>> /\ optimizer.state[i] = <<19, 5>>
        /\ ExampleRun(i, Zero, 1)
           => optimizer.parameters[i] = <<49, 5>> /\ optimizer.state[i] = None

C10_Witness ==
    /\ ExampleRun(1, <<9, 10>>, 2)
    /\ optimizer.parameters[1] = <<471, 50>>
    /\ optimizer.state[1] = <<19, 5>>

LastGrad == grads.hist[Len(grads.hist)]

\* C11: a call of step leaves a parameter that has no gradient in it
\* unchanged and creates no momentum buffer for it (a parameter that never
\* had a gradient has its start value and no buffer), while a parameter
\* with a gradient in the same call is updated: it gets a buffer when
\* momentum is on, and moves by -lr * g when momentum and weight decay are
\* off.
C11_MissingGradient ==
    /\ [][Len(grads'.hist) > Len(grads.hist) =>
            \A i \in 1 .. Len(optimizer.parameters) :
               LET g == grads'.hist[Len(grads'.hist)][i]
               IN /\ g = None =>
                       /\ optimizer'.parameters[i] = optimizer.parameters[i]
                       /\ optimizer'.state[i] = optimizer.state[i]
                  /\ g # None =>
                       /\ optimizer.momentum # Zero => optimizer'.state[i] # None
                       /\ (optimizer.momentum = Zero /\ optimizer.weight_decay = Zero)
                          => /\ optimizer'.parameters[i] # optimizer.parameters[i]
                             /\ optimizer'.parameters[i] =
                                  RAdd(optimizer.parameters[i], RNeg(RMul(optimizer.lr, g)))]_vars
    /\ [](\A i \in 1 .. Len(optimizer.parameters) :
            (\A k \in 1 .. Len(grads.hist) : grads.hist[k][i] = None)
            => /\ optimizer.parameters[i] = grads.p0[i]
               /\ optimizer.state[i] = None)

C11_Witness ==
    /\ Len(grads.hist) = 2
    /\ optimizer.momentum # Zero
    /\ grads.hist[1][1] = None /\ grads.hist[2][1] = None
    /\ grads.hist[1][2] # None /\ LastGrad[2] # None
    /\ optimizer.parameters[1] = grads.p0[1] /\ optimizer.state[1] = None
    /\ optimizer.parameters[2] # grads.p0[2] /\ optimizer.state[2] # None

\* what the coordinator of rank r does with the reduced pair it holds
Decision(r) ==
    IF Finished(coord[r].maxepoch[1], args) THEN "exit"
    ELSE IF Trigger(coord[r].maxepoch, args) THEN "average"
    ELSE "skip"

Deciding(q, d) == coord[q].pc = "check" /\ Decision(q) = d

\* C12: in a reduction round all ranks hold the same reduced pair and take
\* the same decision: a rank that is in the averaging collective has every
\* peer in it or about to enter it, a rank that overwrites its parameters
\* has every peer overwriting or already in the next round, a rank that
\* is in the next max-reduction has every peer on its way to it, and a
\* rank that has left the loop has every peer leaving it; no rank waits in
\* a collective that a peer does not join.
C12_SameDecision ==
    \A r \in Ranks, q \in Ranks :
        /\ (coord[r].pc = "check" /\ coord[q].pc = "check")
           => coord[r].maxepoch = coord[q].maxepoch /\ Decision(r) = Decision(q)
        /\ coord[r].pc = "communicate"
           => coord[q].pc = "communicate" \/ Deciding(q, "average")
        /\ coord[r].pc = "overwrite"
           => coord[q].pc \in {"overwrite", "read", "all_reduce"}
        /\ coord[r].pc \in {"read", "all_reduce"}
           => \/ coord[q].pc \in {"read", "all_reduce", "overwrite"}
              \/ Deciding(q, "skip")
        /\ Exited(r) => Exited(q) \/ Deciding(q, "exit")

C12_Witness ==
    /\ args.commsize = 2
    /\ \E r \in Ranks, q \in Ranks :
          /\ coord[r].pc = "communicate"
          /\ Deciding(q, "average")
          /\ coord[r].minibatches > coord[q].minibatches
          /\ coord[q].last_averaged_at > 0

\* worker w of rank r reads or updates the shared net in this step:
\* forward/backward of a batch, optimizer.step, or test_epoch
TouchesNet(r, w) ==
    \/ proc[r][w].pc = "batch" /\ proc'[r][w].pc = "count"
    \/ proc[r][w].pc = "step" /\ proc'[r][w].pc # "step"
    \/ proc[r][w].pc = "test" /\ proc'[r][w].pc # "test"

\* C13 as stated: while the coordinator's averaging is overwriting the
\* parameters of a rank, no worker of the rank reads or updates them.
C13_ExclusiveOverwrite ==
    [][\A r \in Ranks :
          coord[r].pc = "overwrite" => \A w \in Procs : ~TouchesNet(r, w)]_vars

\* the trigger condition of the claim on the pair rank r holds
TriggerHolds(r) ==
    coord[r].maxepoch[1] + coord[r].maxepoch[2]
      >= (IF coord[r].maxepoch[1] < args.pre_post_epochs * args.trainloaderlength
          THEN 1 ELSE args.averaging_freq)

LeavesCheck(r) == coord[r].pc = "check" /\ coord'[r].pc # "check"

\* C14 as stated: in each coordinator round the parameter exchange is
\* performed if and only if global_max_m + global_max_deficit >=
\* averaging_interval.
C14_ExchangeIffTrigger ==
    [][\A r \in Ranks :
          LeavesCheck(r) => (coord'[r].pc = "communicate" <=> TriggerHolds(r))]_vars

\* C14 amended: the reduction gives every rank the maximum of the counts
\* read and the maximum of -last_averaged_at; in a round whose maximum is
\* below the target the exchange is performed if and only if the trigger
\* condition holds, and in a round whose maximum has reached the target
\* it is not performed; last_averaged_at changes only at the end of an
\* exchange, to the count m the rank read at the start of that round.
C14_ExchangeUnlessFinished ==
    /\ [][((\A r \in Ranks : coord[r].pc = "all_reduce") /\ coord' # coord)
           => \A r \in Ranks :
                coord'[r].maxepoch =
                  <<Max({coord[q].minibatches : q \in Ranks}),
                    Max({-coord[q].last_averaged_at : q \in Ranks})>>]_vars
    /\ [][\A r \in Ranks :
            LeavesCheck(r) =>
              IF coord[r].maxepoch[1] >= Target(args)
              THEN coord'[r].pc = "join"
              ELSE /\ coord'[r].pc = "communicate" <=> TriggerHolds(r)
                   /\ coord'[r].pc = "read" <=> ~TriggerHolds(r)]_vars
    /\ [][\A r \in Ranks :
            /\ coord[r].pc \in {"all_reduce", "check", "communicate", "overwrite"}
               => coord'[r].minibatches = coord[r].minibatches
            /\ coord'[r].last_averaged_at # coord[r].last_averaged_at
               => /\ coord[r].pc = "overwrite"
                  /\ coord'[r].last_averaged_at = coord[r].minibatches
            /\ (coord[r].pc = "overwrite" /\ coord'[r].pc # "overwrite")
               => coord'[r].last_averaged_at = coord[r].minibatches]_vars

C14_Witness ==
    /\ args.commsize = 2
    /\ \E r \in Ranks, q \in Ranks :
          /\ coord[r].pc = "read" /\ coord[q].pc = "read"
          /\ coord[r].last_averaged_at > coord[q].last_averaged_at
          /\ coord[q].last_averaged_at > 1

\* the global maximum at the previous exchange: every rank recorded its
\* own count then, so the largest recorded value is the maximum of that round
PreviousExchangeMax == Max({coord[q].last_averaged_at : q \in Ranks})

\* C15: after the warm-up period, when an exchange is decided the global
\* maximum has advanced by at least averaging_freq since the previous
\* exchange, for any number of ranks and any relative speeds.
C15_AdvanceBetweenExchanges ==
    \A r \in Ranks :
      (/\ coord[r].pc = "communicate"
       /\ PreviousExchangeMax >= args.pre_post_epochs * args.trainloaderlength)
      => coord[r].maxepoch[1] - PreviousExchangeMax >= args.averaging_freq

\* worker w of rank r holds a lock
Holds(r, w) == locks[r].minibatch_counter = w \/ locks[r].last_tested_at = w

\* C16: a worker takes the last_tested_at lock only while it holds the
\* minibatch_counter lock, and takes the minibatch_counter lock only while
\* it holds neither; the coordinator's locked reads happen while no worker
\* holds the minibatch_counter lock, and no coordinator step takes a lock
\* that outlasts it or touches the last_tested_at lock; no lock is held outside
\* lines 162-170 (scheduler, optimizer step, evaluation, batch loading);
\* the holder of a lock can always go on, and some step is possible until
\* the run is complete.
C16_LockOrder ==
    /\ [][\A r \in Ranks :
            /\ (locks'[r].last_tested_at # locks[r].last_tested_at
                   /\ locks'[r].last_tested_at # Free)
               => /\ locks[r].last_tested_at = Free
                  /\ locks[r].minibatch_counter = locks'[r].last_tested_at
                  /\ locks'[r].minibatch_counter = locks'[r].last_tested_at
            /\ (locks'[r].minibatch_counter # locks[r].minibatch_counter
                   /\ locks'[r].minibatch_counter # Free)
               => /\ locks[r].minibatch_counter = Free
                  /\ locks[r].last_tested_at = Free
                  /\ locks'[r].last_tested_at = Free
            /\ coord'[r] # coord[r]
               => /\ locks'[r] = locks[r]
                  /\ coord[r].pc \in {"wait_minibatch", "read"}
                     => locks[r].minibatch_counter = Free]_vars
    /\ [](\A r \in Ranks :
            /\ \A w \in Procs :
                 /\ Holds(r, w) <=>
                      proc[r][w].pc \in {"minibatch_locked", "tested_locked", "increment"}
                 /\ locks[r].last_tested_at = w <=> proc[r][w].pc = "tested_locked"
                 /\ proc[r][w].pc = "minibatch_locked" => locks[r].last_tested_at = Free
            /\ locks[r].last_tested_at # Free
               => locks[r].minibatch_counter = locks[r].last_tested_at)
    /\ []((\E r \in Ranks : coord[r].pc # "complete") => ENABLED NextLock)

C16_Witness ==
    /\ args.num_processes = 2
    /\ \E r \in Ranks :
         /\ coord[r].pc = "read"
         /\ \E w \in Procs, v \in Procs :
              /\ proc[r][w].pc = "tested_locked"
              /\ proc[r][v].pc = "count"
              /\ locks[r].minibatch_counter = w
              /\ locks[r].last_tested_at = w

\* the workers of rank r between the increment of line 170 and the end of
\* optimizer.step of line 173
InFlight(r) == { w \in Procs : proc[r][w].pc = "step" }

\* C17 as stated: the counter, and every value of it that a worker or the
\* coordinator has observed, does not exceed the number of optimizer
\* updates applied to the rank's parameters.
C17_CountsCompletedSteps ==
    \A r \in Ranks :
      /\ minibatch_counter[r] <= updates[r]
      /\ coord[r].minibatches <= updates[r]
      /\ \A w \in Procs : proc[r][w].minibatches <= updates[r]

\* C17 amended: the counter counts the steps that have passed line 170: it
\* is the number of optimizer updates applied plus the number of workers
\* that have incremented it and not yet finished optimizer.step, so an
\* observed value exceeds the number of applied updates by at most
\* num_processes, and a worker's own reading by at most num_processes - 1.
C17_CountsStartedSteps ==
    \A r \in Ranks :
      /\ minibatch_counter[r] = updates[r] + Cardinality(InFlight(r))
      /\ coord[r].minibatches <= updates[r] + args.num_processes
      /\ \A w \in Procs :
           proc[r][w].minibatches <= updates[r] + args.num_processes - 1

C17_Witness ==
    \E r \in Ranks :
      /\ args.num_processes = 2
      /\ updates[r] = 0
      /\ InFlight(r) = Procs
      /\ coord[r].pc = "all_reduce"
      /\ coord[r].minibatches = 2

\* worker w of rank r has left its training loop
Stopped(r, w) == proc[r][w].pc \in {"return", "done"}

\* C18: a worker takes no further step after a step whose reading of the
\* counter was at or above epochs * trainloaderlength, and does not stop
\* before such a step; the counter never exceeds the target plus
\* num_processes and equals it once all workers of the rank are done.
C18_StopAtTarget ==
    /\ [][\A r \in Ranks : \A w \in Procs :
            /\ proc'[r][w].minibatches # proc[r][w].minibatches
               => proc[r][w].minibatches < Target(args)
            /\ (proc[r][w].pc = "loop" /\ proc'[r][w].pc = "batch")
               => proc[r][w].minibatches < Target(args)
            /\ (~Stopped(r, w) /\ Stopped(r, w)')
               => proc[r][w].minibatches >= Target(args)]_vars
    /\ [](\A r \in Ranks :
            /\ minibatch_counter[r] <= Target(args) + args.num_processes
            /\ \A w \in Procs :
                 Stopped(r, w) => proc[r][w].minibatches >= Target(args)
            /\ (\A w \in Procs : proc[r][w].pc = "done")
               => minibatch_counter[r] = Target(args) + args.num_processes)

C18_Witness ==
    \E r \in Ranks :
      /\ args.num_processes = 2
      /\ Target(args) >= 2
      /\ \A w \in Procs : proc[r][w].pc = "done"
      /\ minibatch_counter[r] = Target(args) + 2
      /\ \E w \in Procs : proc[r][w].minibatches = Target(args) + 1

\* the evaluation window
Window == args.test_freq * args.trainloaderlength

\* worker w of rank r has taken a step and that step was marked
Marked(r, w) == proc[r][w].minibatches >= 0 /\ proc[r][w].do_test

\* C19: a step is marked for evaluation exactly when its reading of the
\* counter is a positive multiple of the window; last_tested_at is a
\* multiple of the window and moves by exactly one window, to the reading
\* of the marked step; no two workers are marked for the same reading.
C19_EvaluationWindows ==
    /\ [](\A r \in Ranks :
            /\ last_tested_at[r] % Window = 0
            /\ \A w \in Procs :
                 proc[r][w].minibatches >= 0 =>
                   (proc[r][w].do_test <=>
                      (proc[r][w].minibatches > 0
                         /\ proc[r][w].minibatches % Window = 0))
            /\ \A w \in Procs : \A v \in Procs :
                 (w # v /\ Marked(r, w) /\ Marked(r, v))
                   => proc[r][w].minibatches # proc[r][v].minibatches)
    /\ [][\A r \in Ranks :
            last_tested_at'[r] # last_tested_at[r]
              => /\ last_tested_at'[r] = last_tested_at[r] + Window
                 /\ \E w \in Procs :
                      /\ proc[r][w].pc = "count"
                      /\ proc'[r][w].do_test
                      /\ proc'[r][w].minibatches = last_tested_at'[r]]_vars

C19_Witness ==
    \E r \in Ranks :
      /\ args.num_processes = 2
      /\ Window = 2
      /\ last_tested_at[r] = 2
      /\ \E w \in Procs, v \in Procs :
           /\ proc[r][w].pc = "test" /\ proc[r][w].minibatches = 2
           /\ proc[r][v].pc = "step" /\ proc[r][v].minibatches = 3
           /\ ~proc[r][v].do_test

\* the run is over on every rank: run() has printed "Run Complete!", every
\* worker has ended after appending its two result bundles
Terminated ==
    \A r \in Ranks :
      /\ coord[r].pc = "complete"
      /\ coord[r].joined = args.num_processes
      /\ \A w \in Procs :
           /\ proc[r][w].pc = "done"
           /\ BagIn(<<"testresult", w>>, results[r])
           /\ BagIn(<<"trainresult", w>>, results[r])

\* C20: under fair scheduling and without failures the run terminates on
\* every rank: every coordinator leaves its loop, every worker ends after
\* appending its result bundles, and the joins complete.
C20_Terminates == <>[]Terminated

C20_Witness ==
    /\ args.commsize = 2
    /\ Terminated
    /\ \E r \in Ranks, q \in Ranks :
         coord[r].last_averaged_at > coord[q].last_averaged_at
====
